---- MODULE Spec2Model ----
(***************************************************************************)
(* Audio fingerprinting engine: the three index builders (builddb.py,      *)
(* builddb_threading.py, builddb_cuda.py), the landmark hasher they share  *)
(* in three copies, and the two matchers (identify.py main and             *)
(* builddb_threading.py identify_sample).                                  *)
(*                                                                         *)
(* Decoding, the STFT and the maximum filter are library primitives: an    *)
(* audio file is modelled by what they hand to the hasher, the set of      *)
(* time-frequency cells kept as peaks (per channel for the stereo reader   *)
(* of builddb.py / identify.py), or by the fact that decoding raises.      *)
(***************************************************************************)
EXTENDS Integers, Sequences, FiniteSets, TLC

(***************************************************************************)
(* Bounds of the model.                                                    *)
(***************************************************************************)
MaxTime == 2        \* frames are 0..MaxTime
MaxFreq == 1        \* frequency bins are 0..MaxFreq (hasher inputs)
MaxPeaks == 3       \* peaks per channel
MaxHashPeaks == 4   \* peaks of a hasher input
MaxBuilds == 2      \* runs of a builder against the same store
MaxIdentify == 1    \* runs of identify_sample against the same store

(***************************************************************************)
(* Program constants.                                                      *)
(***************************************************************************)
FanValue == 15      \* fan_value=15
MaxDelta == 200     \* 0 <= time_delta <= 200
MAX_PROCESSES == 4  \* MAX_PROCESSES = 4

Times == 0..MaxTime
Freqs == 0..MaxFreq

Min(a, b) == IF a <= b THEN a ELSE b

(***************************************************************************)
(* Sequences helpers.                                                      *)
(***************************************************************************)
RECURSIVE Concat(_)
Concat(ss) == IF ss = <<>> THEN <<>> ELSE Head(ss) \o Concat(Tail(ss))

\* lexicographic order on pairs of integers: list.sort() on (time, freq, amp)
\* tuples, and the row-major order of np.argwhere on a (freq, time) matrix
PairLess(p, q) == p[1] < q[1] \/ (p[1] = q[1] /\ p[2] < q[2])

RECURSIVE SortPairs(_)
SortPairs(S) ==
    IF S = {} THEN <<>>
    ELSE LET m == CHOOSE p \in S : \A q \in S \ {p} : PairLess(p, q)
         IN  <<m>> \o SortPairs(S \ {m})

(***************************************************************************)
(* The hasher, in its three copies.  A hash is the triple (f1, f2, dt);    *)
(* the code renders it as the decimal text "f1|f2|dt" (builddb.py,         *)
(* identify.py) or "f1,f2,dt" (threading, cuda), which is one-to-one on    *)
(* triples of integers, so equality of the text is equality of the triple. *)
(***************************************************************************)
\* for i in range(n): for j in range(1, fan_value): if (i + j) < n
\* a scan that pairs an anchor with every later peak, whatever fan_value
FanPairs_unbounded(n, fan_value) ==
    Concat([i \in 1..n |-> [j \in 1..(n - i) |-> <<i, i + j>>]])

FanPairs(n, fan_value) ==
    Concat([i \in 1..n |->
              [j \in 1..Min(n - i, IF fan_value < 1 THEN 0 ELSE fan_value - 1)
                 |-> <<i, i + j>>]])

\* builddb.py / identify.py generate_hashes: peaks are (time, freq) tuples,
\* sorted, and a pair is kept when 0 <= time_delta <= 200
DeltaKept(time_delta) == 0 <= time_delta /\ time_delta <= MaxDelta

generate_hashes(peaks, fan_value) ==
    LET sorted == SortPairs(peaks)
        pairs  == FanPairs(Len(sorted), fan_value)
        cand   == [k \in 1..Len(pairs) |->
                     LET a == sorted[pairs[k][1]]
                         b == sorted[pairs[k][2]]
                     IN  [hash |-> <<a[2], b[2], b[1] - a[1]>>, offset |-> a[1]]]
    IN  SelectSeq(cand, LAMBDA c : DeltaKept(c.hash[3]))

\* np.argwhere(maxima): the (freq, time) cells in row-major order
find_peaks(cells) == SortPairs({<<c[2], c[1]>> : c \in cells})

\* builddb_cuda.py generate_hashes and the loop of
\* builddb_threading.py generate_hashes_and_insert: peaks are (freq, time)
\* rows, no sort, no test on the time difference
generate_hashes_ft(peaks, fan_value) ==
    LET pairs == FanPairs(Len(peaks), fan_value)
    IN  [k \in 1..Len(pairs) |->
           LET a == peaks[pairs[k][1]]
               b == peaks[pairs[k][2]]
           IN  [hash |-> <<a[1], b[1], b[2] - a[2]>>, offset |-> a[2]]]

(***************************************************************************)
(* File names.  A name is the sequence of its characters, so that the      *)
(* slicing and splitting the builders do on it can be computed.            *)
(***************************************************************************)
WavExt == <<".", "w", "a", "v">>
Mp3Ext == <<".", "m", "p", "3">>
FileNames == { <<"a", "b">> \o WavExt, <<"c", "d">> \o WavExt }

\* str.endswith
endswith(s, suffix) ==
    /\ Len(s) >= Len(suffix)
    /\ SubSeq(s, Len(s) - Len(suffix) + 1, Len(s)) = suffix

\* os.path.splitext(name)[0]: the name up to its last dot, when that dot
\* follows a character that is not a dot
splitext_root(name) ==
    LET dots == {i \in 1..Len(name) : name[i] = "."}
        lead == {i \in 1..Len(name) : \A k \in 1..i : name[k] = "."}
    IN  IF dots \ lead = {} THEN name
        ELSE LET last == CHOOSE i \in dots : \A k \in dots : k <= i
             IN  SubSeq(name, 1, last - 1)

\* os.path.basename(audio_file)[:-5]
slice_minus5(name) == IF Len(name) > 5 THEN SubSeq(name, 1, Len(name) - 5) ELSE <<>>

\* lexicographic order on names (str comparison; the characters used here
\* are ordered as listed)
CharRank(c) ==
    CASE c = "." -> 1 [] c = "3" -> 2 [] c = "a" -> 3 [] c = "b" -> 4
      [] c = "c" -> 5 [] c = "d" -> 6 [] c = "m" -> 7 [] c = "p" -> 8
      [] c = "s" -> 9 [] c = "v" -> 10 [] c = "w" -> 11

RECURSIVE NameLess(_, _)
NameLess(x, y) ==
    IF y = <<>> THEN FALSE
    ELSE IF x = <<>> THEN TRUE
    ELSE IF CharRank(Head(x)) # CharRank(Head(y)) THEN CharRank(Head(x)) < CharRank(Head(y))
    ELSE NameLess(Tail(x), Tail(y))

(***************************************************************************)
(* Audio.  The corpus files hold a single tone bin, so a channel is the    *)
(* set of frames at which it has a peak.                                   *)
(***************************************************************************)
CorpusFreqs == {0}
\* mono files: a tone with a peak in each of its first k frames
CellSets == {(0..(k - 1)) \X CorpusFreqs : k \in 0..Min(MaxPeaks, MaxTime + 1)}
\* stereo files: each channel has peaks at fewer than MaxPeaks frames
ChannelSets == {c \in SUBSET (Times \X CorpusFreqs) : Cardinality(c) < MaxPeaks}
\* librosa.load(sr=None) hands one mono signal to the threading and cuda builders;
\* scipy.io.wavfile.read hands two channels to builddb.py and identify.py
Corrupt == [kind |-> "corrupt"]
Absent == [kind |-> "absent"]
Mono(cells) == [kind |-> "mono", cells |-> cells]
Stereo(left, right) == [kind |-> "stereo", channels |-> <<left, right>>]
MonoContent == {Mono(c) : c \in CellSets} \cup {Corrupt}
StereoContent == {Stereo(l, r) : l \in ChannelSets, r \in ChannelSets} \cup {Corrupt}

(***************************************************************************)
(* State.                                                                  *)
(***************************************************************************)
VARIABLES
    variant,             \* which program runs: "builddb", "threading", "cuda", "hasher"
    folder,              \* the songs folder: file name -> decoded content or "absent"
    listing,             \* the order in which os.listdir / os.walk lists the folder
    fingerprints,        \* the committed rows of the fingerprints table, in rowid order
    builds,              \* builds run against the store file so far
    build_pc,            \* "idle", "running", "finished", "raised", "aborted", "crashed"
    worker,              \* file name -> state of its future
    db_lock,             \* builddb_threading.py db_lock: Free or the holder's file
    txn,                 \* rows written by the open connection and not yet committed
    executed,            \* INSERT statements the lock holder has executed
    joined,              \* futures whose result() the threading main thread has taken
    logged,              \* files whose failure the build has logged
    identifies,          \* identify_sample runs so far
    identified,          \* what the last identify_sample returned
    query,               \* the sample last given to identify.py: <<file, start frame>>
    input_hashes,        \* identify.py main
    input_offsets,
    matches,
    candidate_counts,
    max_match_count,
    best_candidate_name,
    best_offset,         \* the offset of the bin at which best_candidate_name was last set
    h_cells,             \* hasher input: the peak cells
    h_fan,               \* hasher input: fan_value
    h_out,               \* hasher output
    spectrogram,         \* peak finder input: the value of every cell
    sample_hashes,       \* chunked lookup input: the (hash, offset) list of the sample
    batch_size,          \* chunked lookup input: identify_sample(batch_size)
    join_order,          \* chunked lookup input: the row order the JOIN returns
    pool                 \* the files of a process-pool build, counted by stage

buildVars == <<fingerprints, builds, build_pc, worker, db_lock, txn, executed, joined, logged>>
envVars == <<variant, folder, listing>>
sampleVars == <<identifies, identified>>
matchVars == <<query, input_hashes, input_offsets, matches, candidate_counts,
               max_match_count, best_candidate_name, best_offset>>
hasherVars == <<h_cells, h_fan, h_out>>
inputVars == <<spectrogram, sample_hashes, batch_size, join_order>>
poolVars == <<pool>>
vars == <<envVars, buildVars, sampleVars, matchVars, hasherVars, inputVars, poolVars>>

NoName == <<>>       \* the empty string ''
Free == <<"free">>   \* db_lock when no thread holds it (no file has this name)

\* the listing in the order of the characters of the names
RECURSIVE SortNames(_)
SortNames(S) ==
    IF S = {} THEN <<>>
    ELSE LET m == CHOOSE x \in S : \A y \in S \ {x} : NameLess(x, y)
         IN  <<m>> \o SortNames(S \ {m})

Present(fld) == {f \in FileNames : fld[f] # Absent}
Range(s) == {s[i] : i \in 1..Len(s)}
Orders(S) == {o \in [1..Cardinality(S) -> S] : Range(o) = S}

\* file.endswith('.mp3') or file.endswith('.wav'), over os.walk
files_to_process(lst) ==
    SelectSeq(lst, LAMBDA file : endswith(file, Mp3Ext) \/ endswith(file, WavExt))

(***************************************************************************)
(* The store.  sqlite3 opens a transaction at the first INSERT of a        *)
(* connection; the rows reach the table at conn.commit() and are dropped   *)
(* when the connection goes away without it.                               *)
(***************************************************************************)
\* an INSERT on a connection in autocommit mode: the row is in the table at once
execute_insert_autocommit(db, pending, row) == [db |-> Append(db, row), pending |-> pending]

\* cursor.execute('INSERT INTO fingerprints ...') inside the open transaction
execute_insert(db, pending, row) == [db |-> db, pending |-> Append(pending, row)]

\* conn.commit()
commit(db, pending) == db \o pending

\* the rows one file contributes, threading and cuda layout
song_rows(file, cells) ==
    LET song_id == splitext_root(file)
        label   == file
        hashes  == generate_hashes_ft(find_peaks(cells), FanValue)
    IN  [k \in 1..Len(hashes) |->
           [hash |-> hashes[k].hash, offset |-> hashes[k].offset,
            song_id |-> song_id, label |-> label]]

\* song_rows for every file name and content of the corpus, as a table
SongRows == [file \in FileNames |-> [cells \in CellSets |-> song_rows(file, cells)]]

NoMatchState ==
    /\ query = <<NoName, 0>>
    /\ input_hashes = <<>>
    /\ input_offsets = <<>>
    /\ matches = <<>>
    /\ candidate_counts = <<>>
    /\ max_match_count = 0
    /\ best_candidate_name = NoName
    /\ best_offset = 0

NoHasherState == h_cells = {} /\ h_fan = 0 /\ h_out = [by |-> "none", pairs |-> <<>>]

NoInputs ==
    /\ spectrogram = <<>>
    /\ sample_hashes = <<>>
    /\ batch_size = 0
    /\ join_order = "none"

NoPool == pool = [queued |-> 0, running |-> 0, completed |-> 0, consumed |-> 0]

StoreInit ==
    /\ fingerprints = <<>>
    /\ builds = 0
    /\ build_pc = "idle"
    /\ worker = [f \in FileNames |-> "none"]
    /\ db_lock = Free
    /\ txn = <<>>
    /\ executed = 0
    /\ joined = 0
    /\ logged = {}
    /\ identifies = 0
    /\ identified = "none"

\* the threading and the cuda builder against a folder of mono files
Init ==
    /\ variant \in {"threading", "cuda"}
    /\ folder \in [FileNames -> MonoContent \cup {Absent}]
    /\ listing = SortNames(Present(folder))
    /\ StoreInit
    /\ NoMatchState
    /\ NoInputs /\ NoPool
    /\ NoHasherState

CanStart(v) ==
    /\ variant = v
    /\ build_pc # "running"
    /\ builds < MaxBuilds

(***************************************************************************)
(* builddb_threading.py build_database and its workers.                    *)
(***************************************************************************)
ThreadingStart ==
    /\ CanStart("threading")
    /\ builds' = builds + 1
    /\ LET files == files_to_process(listing)
       IN  IF files = <<>>
           THEN /\ build_pc' = "finished"        \* "No audio files found": return
                /\ worker' = [f \in FileNames |-> "none"]
           ELSE /\ build_pc' = "running"
                /\ worker' = [f \in FileNames |->
                                IF f \in Range(files) THEN "submitted" ELSE "none"]
    /\ joined' = 0
    /\ logged' = {}
    /\ UNCHANGED <<fingerprints, db_lock, txn, executed>>
    /\ UNCHANGED <<envVars, sampleVars, matchVars, hasherVars, inputVars, poolVars>>

\* librosa.load, get_spectrogram, find_peaks: raise on a file that cannot be decoded
ThreadingLoad(f) ==
    /\ variant = "threading" /\ build_pc = "running"
    /\ worker[f] = "submitted"
    /\ worker' = [worker EXCEPT ![f] = IF folder[f] = Corrupt THEN "failed" ELSE "ready"]
    /\ UNCHANGED <<fingerprints, builds, build_pc, db_lock, txn, executed, joined, logged>>
    /\ UNCHANGED <<envVars, sampleVars, matchVars, hasherVars, inputVars, poolVars>>

\* an append that does not take db_lock before it opens its connection
acquire_unlocked(lock) == TRUE

\* db_lock = Lock(); `with db_lock:` is entered when no thread holds it
acquire(lock) == lock = Free

\* with db_lock: conn = sqlite3.connect(db_file)
ThreadingAcquire(f) ==
    /\ variant = "threading" /\ build_pc = "running"
    /\ worker[f] = "ready"
    /\ acquire(db_lock)
    /\ db_lock' = f
    /\ worker' = [worker EXCEPT ![f] = "inserting"]
    /\ txn' = <<>>
    /\ executed' = 0
    /\ UNCHANGED <<fingerprints, builds, build_pc, joined, logged>>
    /\ UNCHANGED <<envVars, sampleVars, matchVars, hasherVars, inputVars, poolVars>>

\* one turn of the hashing loop that reaches cursor.execute
ThreadingInsert(f) ==
    /\ variant = "threading" /\ build_pc = "running"
    /\ worker[f] = "inserting" /\ db_lock = f
    /\ LET rows == SongRows[f][folder[f].cells]
       IN  /\ executed < Len(rows)
           /\ LET r == execute_insert(fingerprints, txn, rows[executed + 1])
              IN  fingerprints' = r.db /\ txn' = r.pending
    /\ executed' = executed + 1
    /\ UNCHANGED <<builds, build_pc, worker, db_lock, joined, logged>>
    /\ UNCHANGED <<envVars, sampleVars, matchVars, hasherVars, inputVars, poolVars>>

\* conn.commit(); conn.close(); leaving the with block
ThreadingCommit(f) ==
    /\ variant = "threading" /\ build_pc = "running"
    /\ worker[f] = "inserting" /\ db_lock = f
    /\ executed = Len(SongRows[f][folder[f].cells])
    /\ fingerprints' = commit(fingerprints, txn)
    /\ txn' = <<>>
    /\ executed' = 0
    /\ db_lock' = Free
    /\ worker' = [worker EXCEPT ![f] = "done"]
    /\ UNCHANGED <<builds, build_pc, joined, logged>>
    /\ UNCHANGED <<envVars, sampleVars, matchVars, hasherVars, inputVars, poolVars>>

\* a lock taken with acquire() and no try/finally: an exception leaves it held
exit_without_release(lock) == lock

\* an exception leaves `with db_lock:` through Lock.__exit__, which releases
exit_with_block(lock) == Free

\* sqlite3 raises inside the with block: the lock is released on the way
\* out, the exception is logged and re-raised into the future, and the
\* connection never commits
ThreadingStoreError(f) ==
    /\ variant = "threading" /\ build_pc = "running"
    /\ worker[f] = "inserting" /\ db_lock = f
    /\ txn' = <<>>
    /\ executed' = 0
    /\ db_lock' = exit_with_block(db_lock)
    /\ worker' = [worker EXCEPT ![f] = "failed"]
    /\ UNCHANGED <<fingerprints, builds, build_pc, joined, logged>>
    /\ UNCHANGED <<envVars, sampleVars, matchVars, hasherVars, inputVars, poolVars>>

\* for future in futures: try: future.result() except Exception: logging.error
ThreadingJoin ==
    /\ variant = "threading" /\ build_pc = "running"
    /\ LET files == files_to_process(listing)
       IN  /\ joined < Len(files)
           /\ worker[files[joined + 1]] \in {"done", "failed"}
           /\ logged' = IF worker[files[joined + 1]] = "failed"
                         THEN logged \cup {files[joined + 1]} ELSE logged
    /\ joined' = joined + 1
    /\ UNCHANGED <<fingerprints, builds, build_pc, worker, db_lock, txn, executed>>
    /\ UNCHANGED <<envVars, sampleVars, matchVars, hasherVars, inputVars, poolVars>>

\* the executor's with block ends once every future has finished
ThreadingReturn ==
    /\ variant = "threading" /\ build_pc = "running"
    /\ joined = Len(files_to_process(listing))
    /\ build_pc' = "finished"
    /\ UNCHANGED <<fingerprints, builds, worker, db_lock, txn, executed, joined, logged>>
    /\ UNCHANGED <<envVars, sampleVars, matchVars, hasherVars, inputVars, poolVars>>

\* the builder process is killed: open transactions are never committed
Crash ==
    /\ variant \in {"threading", "cuda"} /\ build_pc = "running"
    /\ build_pc' = "crashed"
    /\ worker' = [f \in FileNames |-> "none"]
    /\ db_lock' = Free
    /\ txn' = <<>>
    /\ executed' = 0
    /\ joined' = 0
    /\ UNCHANGED <<fingerprints, builds, logged>>
    /\ UNCHANGED <<envVars, sampleVars, matchVars, hasherVars, inputVars, poolVars>>

(***************************************************************************)
(* builddb_threading.py identify_sample.  Its first statement runs         *)
(* fingerprint_song_and_insert on the sample, which writes the sample's    *)
(* rows to the store and returns nothing; the function then returns None   *)
(* at "if not sample_hashes".  A sample that cannot be decoded raises into *)
(* the outer except, which returns None as well.                           *)
(***************************************************************************)
\* executemany / the insert loop followed by conn.commit(), as one call
insert_all(db, rows) ==
    LET RECURSIVE Run(_, _, _)
        Run(d, pending, k) ==
            IF k > Len(rows) THEN commit(d, pending)
            ELSE LET r == execute_insert(d, pending, rows[k])
                 IN  Run(r.db, r.pending, k + 1)
    IN  Run(db, <<>>, 1)

IdentifySample(sample_file) ==
    /\ variant = "threading" /\ build_pc # "running"
    /\ identifies < MaxIdentify
    /\ db_lock = Free
    /\ identifies' = identifies + 1
    \* before the first build the store has no fingerprints table and the
    \* INSERT raises, like the decoding of a corrupt sample
    /\ fingerprints' = IF builds = 0 \/ folder[sample_file] = Corrupt THEN fingerprints
                       ELSE insert_all(fingerprints,
                                       song_rows(sample_file, folder[sample_file].cells))
    /\ identified' = "None"
    /\ UNCHANGED <<builds, build_pc, worker, db_lock, txn, executed, joined, logged>>
    /\ UNCHANGED <<envVars, matchVars, hasherVars, inputVars, poolVars>>

(***************************************************************************)
(* builddb_cuda.py build_database: a pool of MAX_PROCESSES processes runs  *)
(* process_file, the main process inserts each result as it completes.     *)
(***************************************************************************)
CudaStart ==
    /\ CanStart("cuda")
    /\ builds' = builds + 1
    /\ LET files == files_to_process(listing)
       IN  IF files = <<>>
           THEN /\ build_pc' = "finished"
                /\ worker' = [f \in FileNames |-> "none"]
           ELSE /\ build_pc' = "running"
                /\ worker' = [f \in FileNames |->
                                IF f \in Range(files) THEN "queued" ELSE "none"]
    /\ logged' = {}
    /\ UNCHANGED <<fingerprints, db_lock, txn, executed, joined>>
    /\ UNCHANGED <<envVars, sampleVars, matchVars, hasherVars, inputVars, poolVars>>

\* a pool process takes the next submitted call
CudaRun(f) ==
    /\ variant = "cuda" /\ build_pc = "running"
    /\ worker[f] = "queued"
    /\ Cardinality({g \in FileNames : worker[g] = "running"}) < MAX_PROCESSES
    /\ worker' = [worker EXCEPT ![f] = "running"]
    /\ UNCHANGED <<fingerprints, builds, build_pc, db_lock, txn, executed, joined, logged>>
    /\ UNCHANGED <<envVars, sampleVars, matchVars, hasherVars, inputVars, poolVars>>

\* process_file returns (file_path, hashes), or (file_path, None) after logging
CudaWorkerDone(f) ==
    /\ variant = "cuda" /\ build_pc = "running"
    /\ worker[f] = "running"
    /\ worker' = [worker EXCEPT ![f] = "completed"]
    /\ logged' = IF folder[f] = Corrupt THEN logged \cup {f} ELSE logged
    /\ UNCHANGED <<fingerprints, builds, build_pc, db_lock, txn, executed, joined>>
    /\ UNCHANGED <<envVars, sampleVars, matchVars, hasherVars, inputVars, poolVars>>

\* what future.result() hands over: the rows, or <<>> for None and for []
cuda_result(f) == IF folder[f] = Corrupt THEN <<>> ELSE song_rows(f, folder[f].cells)

\* one turn of "for future in as_completed": if song_hashes: insert_hashes(...)
CudaConsume(f) ==
    /\ variant = "cuda" /\ build_pc = "running"
    /\ worker[f] = "completed"
    /\ worker' = [worker EXCEPT ![f] = "consumed"]
    /\ fingerprints' = IF cuda_result(f) = <<>> THEN fingerprints
                       ELSE insert_all(fingerprints, cuda_result(f))
    /\ UNCHANGED <<builds, build_pc, db_lock, txn, executed, joined, logged>>
    /\ UNCHANGED <<envVars, sampleVars, matchVars, hasherVars, inputVars, poolVars>>

\* insert_hashes raises: the except around the whole loop ends the build,
\* the rows of this call are never committed and no later result is read
CudaStoreError(f) ==
    /\ variant = "cuda" /\ build_pc = "running"
    /\ worker[f] = "completed"
    /\ cuda_result(f) # <<>>
    /\ build_pc' = "aborted"
    /\ worker' = [g \in FileNames |-> "none"]
    /\ UNCHANGED <<fingerprints, builds, db_lock, txn, executed, joined, logged>>
    /\ UNCHANGED <<envVars, sampleVars, matchVars, hasherVars, inputVars, poolVars>>

\* as_completed is exhausted
CudaReturn ==
    /\ variant = "cuda" /\ build_pc = "running"
    /\ \A f \in FileNames : worker[f] \in {"none", "consumed"}
    /\ build_pc' = "finished"
    /\ UNCHANGED <<fingerprints, builds, worker, db_lock, txn, executed, joined, logged>>
    /\ UNCHANGED <<envVars, sampleVars, matchVars, hasherVars, inputVars, poolVars>>

Next ==
    \/ ThreadingStart
    \/ \E f \in FileNames : ThreadingLoad(f)
    \/ \E f \in FileNames : ThreadingAcquire(f)
    \/ \E f \in FileNames : ThreadingInsert(f)
    \/ \E f \in FileNames : ThreadingCommit(f)
    \/ \E f \in FileNames : ThreadingStoreError(f)
    \/ ThreadingJoin
    \/ ThreadingReturn
    \/ \E f \in Present(folder) : IdentifySample(f)
    \/ CudaStart
    \/ \E f \in FileNames : CudaRun(f)
    \/ \E f \in FileNames : CudaWorkerDone(f)
    \/ \E f \in FileNames : CudaConsume(f)
    \/ \E f \in FileNames : CudaStoreError(f)
    \/ CudaReturn
    \/ Crash

Spec == Init /\ [][Next]_vars

(***************************************************************************)
(* builddb.py: process_song and main.                                      *)
(***************************************************************************)
\* process_audio / the channel loop of process_song: both channels are
\* fingerprinted and the two lists concatenated
process_audio(channels) ==
    generate_hashes(channels[1], FanValue) \o generate_hashes(channels[2], FanValue)

\* the rows process_song returns for one file; float(offset) is exact on
\* frame numbers
process_song(audio_file, content) ==
    LET filename == slice_minus5(audio_file)
        all      == process_audio(content.channels)
    IN  [i \in 1..Len(all) |->
           [hash |-> all[i].hash, offset |-> all[i].offset, song_name |-> filename]]

\* [filename for filename in os.listdir(input_folder) if filename.endswith('.wav')]
songs_paths(lst) == SelectSeq(lst, LAMBDA filename : endswith(filename, WavExt))

\* main: the old database is removed, every song is processed through
\* executor.map, and all rows are written by one insert_elements call.  An
\* exception of process_song surfaces while the results are collected,
\* before anything is inserted, and leaves main.
BuilddbMain ==
    /\ variant = "builddb"
    /\ build_pc # "running"
    /\ builds' = 1                      \* os.remove(output_database): a fresh store
    /\ LET paths == songs_paths(listing)
           failed == {f \in Range(paths) : folder[f] = Corrupt}
       IN  IF failed # {}
           THEN /\ build_pc' = "raised"
                /\ fingerprints' = <<>>
                /\ logged' = {}
           ELSE /\ build_pc' = "finished"
                /\ fingerprints' =
                      insert_all(<<>>, Concat([i \in 1..Len(paths) |->
                                                process_song(paths[i], folder[paths[i]])]))
                /\ logged' = {}
    /\ UNCHANGED <<worker, db_lock, txn, executed, joined>>
    /\ UNCHANGED <<envVars, sampleVars, matchVars, hasherVars, inputVars, poolVars>>

(***************************************************************************)
(* identify.py: search_song and main.                                      *)
(***************************************************************************)
\* SELECT hash, offset, song_name FROM fingerprints WHERE hash IN (...): every
\* row whose hash is one of the query's, once, read in rowid order
search_song(table, hashes) == SelectSeq(table, LAMBDA row : row.hash \in Range(hashes))

\* hash_dict = {match.hash: match.offset for match in matches}: a later row
\* with the same hash replaces the earlier one
hash_dict(rows) ==
    [h \in {rows[i].hash : i \in 1..Len(rows)} |->
        LET last == CHOOSE i \in 1..Len(rows) :
                       /\ rows[i].hash = h
                       /\ \A k \in 1..Len(rows) : rows[k].hash = h => k <= i
        IN  rows[last].offset]

\* relative_offsets = [(match.song_name, match.offset - hash_dict[match.hash]) ...]
relative_offsets(rows) ==
    LET dict == hash_dict(rows)
    IN  [i \in 1..Len(rows) |-> <<rows[i].song_name, rows[i].offset - dict[rows[i].hash]>>]

\* the counting loop of main; candidate_counts is kept as a function on the
\* (song_name, offset) bins seen so far
NoCounts == [counts |-> <<>>, max_match_count |-> 0,
             best_candidate_name |-> NoName, best_offset |-> 0]

count_step(st, bin) ==
    LET n == (IF bin \in DOMAIN st.counts THEN st.counts[bin] ELSE 0) + 1
        counts == [b \in DOMAIN st.counts \cup {bin} |-> IF b = bin THEN n ELSE st.counts[b]]
    IN  IF n > st.max_match_count
        THEN [counts |-> counts, max_match_count |-> n,
              best_candidate_name |-> bin[1], best_offset |-> bin[2]]
        ELSE [st EXCEPT !.counts = counts]

RECURSIVE count_loop(_, _)
count_loop(st, rel) ==
    IF rel = <<>> THEN st ELSE count_loop(count_step(st, Head(rel)), Tail(rel))

\* everything main computes from the rows the lookup returned
match_rows(rows) == count_loop(NoCounts, relative_offsets(rows))

\* a matcher that takes the offset of a vote from the query: one vote for
\* every pair of a returned row and a query hash equal to the row's hash, in
\* the bin (song_name, row offset - query offset)
identify_by_query_offsets(table, hashes, offsets) ==
    LET rows == search_song(table, hashes)
        votes(i) == LET hits == SelectSeq([j \in 1..Len(hashes) |-> j],
                                          LAMBDA j : hashes[j] = rows[i].hash)
                    IN  [k \in 1..Len(hits) |->
                           <<rows[i].song_name, rows[i].offset - offsets[hits[k]]>>]
    IN  count_loop(NoCounts, Concat([i \in 1..Len(rows) |-> votes(i)]))

\* main from the lookup to the end of the counting loop: input_offsets is
\* in scope and is not read
identify(table, hashes, offsets) == match_rows(search_song(table, hashes))

\* a sample cut from a file, starting at frame s
Segment(content, s) ==
    LET cut(c) == {<<p[1] - s, p[2]>> : p \in {q \in c : q[1] >= s}}
    IN  Stereo(cut(content.channels[1]), cut(content.channels[2]))

IdentifyMain(f, s) ==
    /\ variant = "builddb"
    /\ build_pc \in {"finished", "raised"}
    /\ folder[f] \notin {Absent, Corrupt}
    /\ LET fp   == process_audio(Segment(folder[f], s).channels)
           hs   == [i \in 1..Len(fp) |-> fp[i].hash]
           offs == [i \in 1..Len(fp) |-> fp[i].offset]
           rows == search_song(fingerprints, hs)
           res  == identify(fingerprints, hs, offs)
       IN  /\ query' = <<f, s>>
           /\ input_hashes' = hs
           /\ input_offsets' = offs
           /\ matches' = rows
           /\ candidate_counts' = res.counts
           /\ max_match_count' = res.max_match_count
           /\ best_candidate_name' = res.best_candidate_name
           /\ best_offset' = res.best_offset
    /\ UNCHANGED <<envVars, buildVars, sampleVars, hasherVars, inputVars, poolVars>>

InitMatch ==
    /\ variant = "builddb"
    /\ folder \in [FileNames -> StereoContent \cup {Absent}]
    /\ listing \in Orders(Present(folder))
    /\ StoreInit
    /\ NoMatchState
    /\ NoInputs /\ NoPool
    /\ NoHasherState

NextMatch ==
    \/ BuilddbMain
    \/ \E f \in FileNames, s \in Times : IdentifyMain(f, s)

SpecMatch == InitMatch /\ [][NextMatch]_vars

\* builddb.py and identify.py on files whose channels are silent or have two
\* peaks in adjacent frames
PairChannels == {{}} \cup {{<<t, 0>>, <<t + 1, 0>>} : t \in 0..(MaxTime - 1)}
PairContent == {Stereo(l, r) : l \in PairChannels, r \in PairChannels}

InitOffsets ==
    /\ variant = "builddb"
    /\ folder \in [FileNames -> PairContent \cup {Absent}]
    /\ listing \in Orders(Present(folder))
    /\ StoreInit
    /\ NoMatchState
    /\ NoInputs /\ NoPool
    /\ NoHasherState

SpecOffsets == InitOffsets /\ [][NextMatch]_vars

(***************************************************************************)
(* The hasher on its own: a peak set and a fan_value are drawn, and each   *)
(* copy of the hashing loop is applied to them.                            *)
(***************************************************************************)
\* the hasher's inputs: peak sets of up to MaxHashPeaks cells, and the fan
\* values 1 (range(1, 1) is empty), 2 and the default
PeakSets == {c \in SUBSET (Times \X Freqs) : Cardinality(c) <= MaxHashPeaks}
FanValues == {1, 2, FanValue}

InitHasher ==
    /\ variant = "hasher"
    /\ folder = [f \in FileNames |-> Absent]
    /\ listing = <<>>
    /\ StoreInit
    /\ NoMatchState
    /\ NoInputs /\ NoPool
    /\ h_cells \in PeakSets
    /\ h_fan \in FanValues
    /\ h_out = [by |-> "none", pairs |-> <<>>]

HashBuilddb ==
    /\ variant = "hasher"
    /\ h_out' = [by |-> "builddb", pairs |-> generate_hashes(h_cells, h_fan)]
    /\ UNCHANGED <<envVars, buildVars, sampleVars, matchVars, h_cells, h_fan, inputVars, poolVars>>

HashThreading ==
    /\ variant = "hasher"
    /\ h_out' = [by |-> "threading", pairs |-> generate_hashes_ft(find_peaks(h_cells), h_fan)]
    /\ UNCHANGED <<envVars, buildVars, sampleVars, matchVars, h_cells, h_fan, inputVars, poolVars>>

HashCuda ==
    /\ variant = "hasher"
    /\ h_out' = [by |-> "cuda", pairs |-> generate_hashes_ft(find_peaks(h_cells), h_fan)]
    /\ UNCHANGED <<envVars, buildVars, sampleVars, matchVars, h_cells, h_fan, inputVars, poolVars>>

NextHasher == HashBuilddb \/ HashThreading \/ HashCuda

SpecHasher == InitHasher /\ [][NextHasher]_vars

(***************************************************************************)
(* Properties.                                                             *)
(***************************************************************************)
SeqCount(seq, x) == Cardinality({i \in 1..Len(seq) : seq[i] = x})
SameBag(a, b) == \A x \in Range(a) \cup Range(b) : SeqCount(a, x) = SeqCount(b, x)

RECURSIVE Repeat(_, _)
Repeat(rows, k) == IF k = 0 THEN <<>> ELSE rows \o Repeat(rows, k - 1)

\* the committed rows of one track, threading and cuda layout
RowsOfSongId(id) == SelectSeq(fingerprints, LAMBDA row : row.song_id = id)
\* the committed rows of one track, builddb.py layout
RowsOfSongName(name) == SelectSeq(fingerprints, LAMBDA row : row.song_name = name)

\* all the postings of a file of the folder, threading and cuda layout
Postings(f) == IF folder[f].kind = "mono" THEN song_rows(f, folder[f].cells) ELSE <<>>

\* a run of identify.py has taken place
Identified == query[1] # NoName

SongNames == {slice_minus5(f) : f \in FileNames}
Deltas == (0 - MaxTime)..MaxTime
Bins == SongNames \X Deltas

\* the histogram main built
Hist(bin) == IF bin \in DOMAIN candidate_counts THEN candidate_counts[bin] ELSE 0

\* the votes of the matcher contract: one vote per (returned row, query pair)
\* with equal hashes, in the bin (row's track, row's offset - query's offset)
Votes(bin) ==
    Cardinality({pr \in (1..Len(matches)) \X (1..Len(input_hashes)) :
                   /\ matches[pr[1]].hash = input_hashes[pr[2]]
                   /\ matches[pr[1]].song_name = bin[1]
                   /\ matches[pr[1]].offset - input_offsets[pr[2]] = bin[2]})

\* the contract's votes single out one bin
ClearWinner(bin) == Votes(bin) > 0 /\ \A other \in Bins \ {bin} : Votes(other) < Votes(bin)

\* C1: a query made of the whole audio of an ingested track (its fingerprints
\* are that track's postings) is answered with that track, and a bin of
\* that track holds the highest count of the histogram.  Stated for the
\* queries in which the contract's votes leave no tie.
C1_IdentityRoundTrip ==
    (/\ Identified
     /\ query[2] = 0
     /\ RowsOfSongName(slice_minus5(query[1])) = process_song(query[1], folder[query[1]])
     /\ ClearWinner(<<slice_minus5(query[1]), 0>>))
    => /\ best_candidate_name = slice_minus5(query[1])
       /\ \E d \in Deltas : Hist(<<best_candidate_name, d>>) = max_match_count

\* C2: after matching, the histogram holds for every (track, delta) the
\* number of pairs (returned row, query pair) with equal hashes and
\* row offset - query offset = delta.
C2_VoteComputation == Identified => \A bin \in Bins : Hist(bin) = Votes(bin)

\* C3: the matcher returns a bin whose count is the largest of the histogram,
\* the score is that count, and among the tracks that share the largest
\* count it returns the lexicographically smallest track id.
C3_BestBinSelection ==
    (Identified /\ matches # <<>>) =>
        LET top == {b \in DOMAIN candidate_counts :
                      \A c \in DOMAIN candidate_counts :
                         candidate_counts[c] <= candidate_counts[b]}
        IN  /\ \A b \in top : candidate_counts[b] = max_match_count
            /\ \E b \in top : b[1] = best_candidate_name
            /\ \A b \in top : ~NameLess(b[1], best_candidate_name)

\* C4: when the query is the part of an ingested track that starts at frame
\* s, the winning bin's delta is s.  Stated for the queries in which the
\* contract's votes leave no tie.
C4_TimeShift ==
    (/\ Identified
     /\ RowsOfSongName(slice_minus5(query[1])) = process_song(query[1], folder[query[1]])
     /\ ClearWinner(<<slice_minus5(query[1]), query[2]>>))
    => best_offset = query[2]

\* C5: an identification leaves the multiset of rows of the fingerprints
\* table as it was.
C5_MatchingReadOnly ==
    [][identifies' # identifies => SameBag(fingerprints', fingerprints)]_vars

\* C6: in every state of a build, also after a failed worker and after a
\* crash, the committed rows of each track are whole copies of that track's
\* postings (none, or all of them once per completed ingestion), and a file
\* whose processing failed has no row committed.
C6_AllOrNothing ==
    /\ \A f \in FileNames :
          \E k \in 0..(MaxBuilds + MaxIdentify) :
             RowsOfSongId(splitext_root(f)) = Repeat(Postings(f), k)
    /\ \A f \in FileNames :
          (builds = 1 /\ identifies = 0 /\ worker[f] = "failed")
             => RowsOfSongId(splitext_root(f)) = <<>>

\* a worker is part-way through the inserts of a track of several postings,
\* none of them visible, while another track is committed in full
C6_Witness ==
    \E f \in FileNames, g \in FileNames :
       /\ worker[f] = "inserting"
       /\ 0 < executed /\ executed < Len(Postings(f))
       /\ RowsOfSongId(splitext_root(f)) = <<>>
       /\ Len(Postings(g)) > 1
       /\ RowsOfSongId(splitext_root(g)) = Postings(g)

\* C7: when a build has ended and decoding failed for some file, every
\* other file, whose own processing succeeded, has all its postings in the
\* index.
C7_FailureIsolation ==
    build_pc \in {"finished", "raised"} =>
        \A f \in Range(songs_paths(listing)) :
           folder[f] # Corrupt =>
              RowsOfSongName(slice_minus5(f)) = process_song(f, folder[f])

\* C8: ingesting a track id that is already in the index leaves the index
\* unchanged: however many builds have run against a store, a track has its
\* postings in it at most once.
C8_Idempotent ==
    identifies = 0 =>
        \A f \in FileNames :
           RowsOfSongId(splitext_root(f)) \in {<<>>, Postings(f)}

\* C9: every pair the hasher emits has a time difference dt with
\* 1 <= dt <= 200 and an offset >= 0.
C9_PostingBounds ==
    \A i \in 1..Len(h_out.pairs) :
       /\ 1 <= h_out.pairs[i].hash[3]
       /\ h_out.pairs[i].hash[3] <= 200
       /\ h_out.pairs[i].offset >= 0

\* C10: for the rows a lookup returned, in whatever order it returns them,
\* the matcher answers with the same track and the same score.
C10_OrderIndependence ==
    Identified =>
        \A p \in Orders(1..Len(matches)) :
           LET res == match_rows([i \in 1..Len(matches) |-> matches[p[i]]])
           IN  /\ res.best_candidate_name = best_candidate_name
               /\ res.max_match_count = max_match_count

\* the table is a concatenation of whole per-track appends
RECURSIVE SerialAppends(_)
SerialAppends(tbl) ==
    \/ tbl = <<>>
    \/ \E f \in FileNames :
          LET p == Postings(f)
          IN  /\ p # <<>>
              /\ Len(p) <= Len(tbl)
              /\ SubSeq(tbl, 1, Len(p)) = p
              /\ SerialAppends(SubSeq(tbl, Len(p) + 1, Len(tbl)))

\* the workers that have a connection with uncommitted INSERTs
OpenWriters == {f \in FileNames : worker[f] = "inserting"}

\* C11: at no time do two workers hold an open write transaction: the only
\* worker with uncommitted INSERTs is the holder of db_lock (the cuda
\* builder writes from its main process alone); and the table is at all
\* times what the per-track appends give when applied whole, one after the
\* other, in some order, every track a finished build committed among them.
C11_SerializedAppends ==
    /\ Cardinality(OpenWriters) <= 1
    /\ \A f \in OpenWriters : db_lock = f
    /\ (db_lock = Free => txn = <<>>)
    /\ SerialAppends(fingerprints)
    /\ \A f \in FileNames :
          (build_pc = "finished" /\ Postings(f) # <<>>
             /\ (worker[f] = "done" \/ worker[f] = "consumed"))
          => RowsOfSongId(splitext_root(f)) # <<>>

\* a worker has executed INSERTs under the lock while another worker, its
\* postings ready, waits for the lock
C11_Witness ==
    \E f \in FileNames, g \in FileNames :
       /\ f # g
       /\ worker[f] = "inserting" /\ executed > 0 /\ db_lock = f
       /\ worker[g] = "ready" /\ Postings(g) # <<>>

\* the track id a row was stored under: song_name in the table of builddb.py,
\* song_id in the table of the threading and cuda builders
track_id(row) == IF variant = "builddb" THEN row.song_name ELSE row.song_id

\* C12: every stored row carries as its track id the base name of one of
\* the files of the folder with the extension removed.
C12_TrackIdDerivation ==
    \A i \in 1..Len(fingerprints) :
       \E f \in Present(folder) : track_id(fingerprints[i]) = splitext_root(f)

\* C13: the hasher emits at most fan_value * |P| pairs, in each of its
\* three copies.
C13_OutputBound ==
    h_out.by # "none" => Len(h_out.pairs) <= h_fan * Cardinality(h_cells)

\* fan_value cuts the scan short: four peaks have six forward pairs, and
\* with fan_value = 2 only the three pairs of neighbours come out
C13_Witness ==
    /\ h_out.by = "cuda"
    /\ h_fan = 2
    /\ Cardinality(h_cells) = 4
    /\ Len(h_out.pairs) = 3

\* the peaks as <<time, freq>> in the order in which the copy that produced
\* h_out scans them: sorted by time in builddb.py and identify.py, in the
\* order of np.argwhere in the threading and cuda builders
ScanOrder ==
    IF h_out.by = "builddb" THEN SortPairs(h_cells)
    ELSE LET peaks == find_peaks(h_cells)
         IN  [i \in 1..Len(peaks) |-> <<peaks[i][2], peaks[i][1]>>]

\* the later peaks of the scan whose dt from anchor i is in [1, MaxDelta]
Followers(i) ==
    {j \in (i + 1)..Len(ScanOrder) :
        /\ 1 <= ScanOrder[j][1] - ScanOrder[i][1]
        /\ ScanOrder[j][1] - ScanOrder[i][1] <= MaxDelta}

\* the emitted pairs whose anchor is peak i of the scan
PairsOfAnchor(i) ==
    Cardinality({k \in 1..Len(h_out.pairs) :
                    /\ h_out.pairs[k].offset = ScanOrder[i][1]
                    /\ h_out.pairs[k].hash[1] = ScanOrder[i][2]})

\* C16: an anchor that is followed by at least fan_value peaks with dt in
\* range yields exactly fan_value pairs.
C16_TargetSelection ==
    h_out.by # "none" =>
       \A i \in 1..Len(ScanOrder) :
          Cardinality(Followers(i)) >= h_fan => PairsOfAnchor(i) = h_fan

(***************************************************************************)
(* The peak finders, on a spectrogram given as a function from the cells   *)
(* <<time, freq>> to their values.                                         *)
(***************************************************************************)
Threshold == 20          \* find_peaks(spectrogram, threshold=20)
AmpMin == 10             \* get_peaks(spectrogram, amp_min=10)
DiamondRadius == 20      \* iterate_structure(struct, 20)

Abs(x) == IF x < 0 THEN 0 - x ELSE x
SetMax(S) == CHOOSE x \in S : \A y \in S : y <= x

\* size=(3, 3): the cell and its eight neighbours
square3(c, d) == Abs(c[1] - d[1]) <= 1 /\ Abs(c[2] - d[2]) <= 1

\* iterate_structure(generate_binary_structure(2, 1), 20): a diamond
diamond(c, d) == Abs(c[1] - d[1]) + Abs(c[2] - d[2]) <= DiamondRadius

\* scipy.ndimage.maximum_filter in its default mode 'reflect': a cell beyond
\* the edge mirrors a cell of the window, so the maximum is taken over the
\* cells of the window that are in the array
maximum_filter(S, Near(_, _)) ==
    [c \in DOMAIN S |-> SetMax({S[d] : d \in {e \in DOMAIN S : Near(c, e)}})]

\* builddb_threading.py, builddb_cuda.py find_peaks, up to np.argwhere:
\* maxima = (spectrogram == data_max); maxima[diff] = False
local_maxima(S, threshold) ==
    LET data_max == maximum_filter(S, square3)
    IN  {c \in DOMAIN S : S[c] = data_max[c] /\ ~(data_max[c] - S[c] > threshold)}

\* builddb.py get_peaks; binary_erosion with border_value=1 keeps a cell when
\* every cell of the diamond that is in the array is background
get_peaks(S, amp_min) ==
    LET filtered == maximum_filter(S, diamond)
        local_max(c) == filtered[c] = S[c]
        background(c) == S[c] = 0
        eroded_background(c) == \A d \in DOMAIN S : diamond(c, d) => background(d)
        detected_peaks == {c \in DOMAIN S : local_max(c) # eroded_background(c)}
    IN  {c \in detected_peaks : S[c] > amp_min}

\* spectrograms in dB relative to the loudest cell (amplitude_to_db with
\* ref=np.max): the loudest cell is at 0 dB; and magnitude spectrograms
\* (np.abs of the FFT). Silence is all zeros in both.
Grid == Times \X Freqs
DbSpectrograms == {S \in [Grid -> {0 - 30, 0}] : \E c \in Grid : S[c] = 0}
MagSpectrograms == [Grid -> {0, 5, 50}]

InitPeaks ==
    /\ variant = "peaks"
    /\ folder = [f \in FileNames |-> Absent]
    /\ listing = <<>>
    /\ StoreInit
    /\ NoMatchState
    /\ NoHasherState
    /\ NoPool
    /\ spectrogram \in DbSpectrograms \cup MagSpectrograms
    /\ sample_hashes = <<>> /\ batch_size = 0 /\ join_order = "none"

\* builddb.py generate_fingerprint: get_peaks, generate_hashes
PeaksBuilddb ==
    /\ variant = "peaks"
    /\ spectrogram \in MagSpectrograms
    /\ h_cells' = get_peaks(spectrogram, AmpMin)
    /\ h_fan' = FanValue
    /\ h_out' = [by |-> "builddb", pairs |-> generate_hashes(h_cells', FanValue)]
    /\ UNCHANGED <<envVars, buildVars, sampleVars, matchVars, inputVars, poolVars>>

\* builddb_threading.py fingerprint_song_and_insert: find_peaks, hashing loop
PeaksThreading ==
    /\ variant = "peaks"
    /\ spectrogram \in DbSpectrograms
    /\ h_cells' = local_maxima(spectrogram, Threshold)
    /\ h_fan' = FanValue
    /\ h_out' = [by |-> "threading",
                 pairs |-> generate_hashes_ft(find_peaks(h_cells'), FanValue)]
    /\ UNCHANGED <<envVars, buildVars, sampleVars, matchVars, inputVars, poolVars>>

\* builddb_cuda.py fingerprint_song: find_peaks, generate_hashes
PeaksCuda ==
    /\ variant = "peaks"
    /\ spectrogram \in DbSpectrograms
    /\ h_cells' = local_maxima(spectrogram, Threshold)
    /\ h_fan' = FanValue
    /\ h_out' = [by |-> "cuda",
                 pairs |-> generate_hashes_ft(find_peaks(h_cells'), FanValue)]
    /\ UNCHANGED <<envVars, buildVars, sampleVars, matchVars, inputVars, poolVars>>

NextPeaks == PeaksBuilddb \/ PeaksThreading \/ PeaksCuda

SpecPeaks == InitPeaks /\ [][NextPeaks]_vars

\* every cell of the spectrogram is zero
Silent == \A c \in DOMAIN spectrogram : spectrogram[c] = 0

\* C15: when every cell of the spectrogram is equal (all-zero audio), the
\* peak finder returns no peak and the hasher no posting.
C15_SilentInput ==
    (variant = "peaks" /\ h_out.by # "none" /\ Silent)
       => (h_cells = {} /\ h_out.pairs = <<>>)

(***************************************************************************)
(* The chunked lookup of builddb_threading.py identify_sample (lines 176   *)
(* to 208), applied to a sample's (hash, offset) list. identify_sample     *)
(* itself returns before this code (action IdentifySample); the code is    *)
(* checked here as a function of its inputs.                               *)
(***************************************************************************)
MaxBatch == 3
BatchSizes == 1..MaxBatch

\* a chunk loop that stops before a last, shorter chunk
chunks_full_only(seq, size) ==
    [k \in 1..(Len(seq) \div size) |-> SubSeq(seq, (k - 1) * size + 1, k * size)]

\* for i in range(0, len(sample_hashes), batch_size):
\*     chunk = sample_hashes[i:i + batch_size]
chunks(seq, size) ==
    [k \in 1..((Len(seq) + size - 1) \div size) |->
        SubSeq(seq, (k - 1) * size + 1, Min(k * size, Len(seq)))]

\* SELECT f.song_id, f.hash, f.offset, s.offset FROM fingerprints f
\* JOIN sample_hashes s ON f.hash = s.hash, the temporary table holding the
\* chunk. Both sides store the hash as ','.join(map(str, hash_pair)), which
\* is equal exactly when the triples are. SQL leaves the order of the rows
\* to the query plan: fingerprints in the outer loop, or sample_hashes.
query_database_chunk(table, sample_hash_chunk, order) ==
    LET row(i, j) == [song_id |-> table[i].song_id, hash |-> table[i].hash,
                      db_offset |-> table[i].offset,
                      sample_offset |-> sample_hash_chunk[j].offset]
        hit(i, j) == IF table[i].hash = sample_hash_chunk[j].hash
                     THEN <<row(i, j)>> ELSE <<>>
    IN  IF order = "fingerprints"
        THEN Concat([i \in 1..Len(table) |->
                       Concat([j \in 1..Len(sample_hash_chunk) |-> hit(i, j)])])
        ELSE Concat([j \in 1..Len(sample_hash_chunk) |->
                       Concat([i \in 1..Len(table) |-> hit(i, j)])])

\* the futures are taken in the order of their submission:
\* results.extend(chunk_results)
chunked_results(table, hashes, size, order) ==
    LET cs == chunks(hashes, size)
    IN  Concat([k \in 1..Len(cs) |-> query_database_chunk(table, cs[k], order)])

\* what follows the lookup: `if not results: return None`; otherwise
\* Counter(), a name the module never imports, raises NameError, which the
\* except clause of identify_sample turns into `return None`
identified_from(results) == "None"

\* the (hash, offset) list of a sample with peaks in the given cells
hashes_of_sample(cells) == generate_hashes_ft(find_peaks(cells), FanValue)

SampleCells == {c \in SUBSET (Times \X CorpusFreqs) : Cardinality(c) <= MaxPeaks}

\* the table after a finished build of the folder, the tracks committed in
\* any order
BuiltTables ==
    {Concat([i \in 1..Len(o) |->
               IF folder[o[i]] = Corrupt THEN <<>>
               ELSE song_rows(o[i], folder[o[i]].cells)]) :
        o \in Orders(Present(folder))}

InitChunk ==
    /\ variant = "chunk"
    /\ folder \in [FileNames -> MonoContent \cup {Absent}]
    /\ listing = SortNames(Present(folder))
    /\ fingerprints \in BuiltTables
    /\ builds = 1
    /\ build_pc = "finished"
    /\ worker = [f \in FileNames |->
                   IF folder[f] = Absent THEN "none"
                   ELSE IF folder[f] = Corrupt THEN "failed" ELSE "done"]
    /\ db_lock = Free /\ txn = <<>> /\ executed = 0
    /\ joined = Len(listing)
    /\ logged = {f \in FileNames : folder[f] = Corrupt}
    /\ identifies = 0 /\ identified = "none"
    /\ NoMatchState
    /\ NoHasherState
    /\ NoPool
    /\ spectrogram = <<>>
    /\ sample_hashes \in {hashes_of_sample(c) : c \in SampleCells}
    /\ batch_size \in BatchSizes
    /\ join_order \in {"fingerprints", "sample_hashes"}

\* identify_sample from `sample_hashes = list(sample_hashes)` on
ChunkedLookup ==
    /\ variant = "chunk"
    /\ identifies < MaxIdentify
    /\ identifies' = identifies + 1
    /\ matches' = chunked_results(fingerprints, sample_hashes, batch_size, join_order)
    /\ identified' = identified_from(matches')
    /\ UNCHANGED <<query, input_hashes, input_offsets, candidate_counts,
                   max_match_count, best_candidate_name, best_offset>>
    /\ UNCHANGED <<envVars, buildVars, hasherVars, inputVars, poolVars>>

NextChunk == ChunkedLookup

SpecChunk == InitChunk /\ [][NextChunk]_vars

MaxFiles == 9

\* future_to_file = {executor.submit(process_file, file_path): ... for
\* file_path in files_to_process}: every discovered file is submitted
InitPool ==
    /\ variant = "pool"
    /\ folder = [f \in FileNames |-> Absent]
    /\ listing = <<>>
    /\ StoreInit
    /\ NoMatchState
    /\ NoHasherState
    /\ NoInputs
    /\ \E n \in 1..MaxFiles :
          pool = [queued |-> n, running |-> 0, completed |-> 0, consumed |-> 0]

\* a free process of the pool takes the next submitted file
PoolRun ==
    /\ variant = "pool"
    /\ pool.queued > 0
    /\ pool.running < MAX_PROCESSES
    /\ pool' = [pool EXCEPT !.queued = @ - 1, !.running = @ + 1]
    /\ UNCHANGED <<envVars, buildVars, sampleVars, matchVars, hasherVars, inputVars>>

\* process_file returns (file_path, hashes); the result waits in its future
PoolWorkerDone ==
    /\ variant = "pool"
    /\ pool.running > 0
    /\ pool' = [pool EXCEPT !.running = @ - 1, !.completed = @ + 1]
    /\ UNCHANGED <<envVars, buildVars, sampleVars, matchVars, hasherVars, inputVars>>

\* the main process takes one completed future from as_completed and
\* writes its hashes with insert_hashes
PoolConsume ==
    /\ variant = "pool"
    /\ pool.completed > 0
    /\ pool' = [pool EXCEPT !.completed = @ - 1, !.consumed = @ + 1]
    /\ UNCHANGED <<envVars, buildVars, sampleVars, matchVars, hasherVars, inputVars>>

NextPool == PoolRun \/ PoolWorkerDone \/ PoolConsume

SpecPool == InitPool /\ [][NextPool]_vars

\* C17: the completed posting batches that wait in memory to be written
\* never number more than the queue bound, twice the worker count.
C17_BackPressure == pool.completed <= 2 * MAX_PROCESSES

\* the queries (file, start frame) whose hash list is the one of the last
\* query
SameHashQueries ==
    {q \in {f \in FileNames : folder[f] \notin {Absent, Corrupt}} \X Times :
        LET fp == process_audio(Segment(folder[q[1]], q[2]).channels)
        IN  [i \in 1..Len(fp) |-> fp[i].hash] = input_hashes}

QueryOffsets(q) ==
    LET fp == process_audio(Segment(folder[q[1]], q[2]).channels)
    IN  [i \in 1..Len(fp) |-> fp[i].offset]

\* C18: in identify.py the identified song and its match count are a
\* function of the rows the lookup returned: they are what the counting
\* loop gives on those rows, and every query with the same hash list,
\* whatever its offsets, gets the same best song and the same count.
C18_QueryOffsetsUnused ==
    Identified =>
       /\ best_candidate_name = match_rows(matches).best_candidate_name
       /\ max_match_count = match_rows(matches).max_match_count
       /\ \A q \in SameHashQueries :
             LET r == identify(fingerprints, input_hashes, QueryOffsets(q))
             IN  /\ r.best_candidate_name = best_candidate_name
                 /\ r.max_match_count = max_match_count

\* a query found a song, and another query has the same hash list with
\* different offsets
C18_Witness ==
    /\ Identified
    /\ max_match_count > 0
    /\ \E q \in SameHashQueries : QueryOffsets(q) # input_offsets

(***************************************************************************)
(* The threading builder under fair scheduling: while some thread can take *)
(* its next step, a thread does.  Store errors and the death of the        *)
(* process may or may not happen.                                          *)
(***************************************************************************)
InitThreading == Init /\ variant = "threading"

NextThreading ==
    \/ ThreadingStart
    \/ \E f \in FileNames :
          \/ ThreadingLoad(f)
          \/ ThreadingAcquire(f)
          \/ ThreadingInsert(f)
          \/ ThreadingCommit(f)
          \/ ThreadingStoreError(f)
    \/ ThreadingJoin
    \/ ThreadingReturn
    \/ Crash

\* a step of a worker thread or of the main thread that no error forces
ThreadingProgress ==
    \/ \E f \in FileNames :
          \/ ThreadingLoad(f)
          \/ ThreadingAcquire(f)
          \/ ThreadingInsert(f)
          \/ ThreadingCommit(f)
    \/ ThreadingJoin
    \/ ThreadingReturn

\* the scheduler runs some thread that can run
SpecThreadingFair ==
    InitThreading /\ [][NextThreading]_vars /\ WF_vars(ThreadingProgress)

\* every file of the finished build is committed in full or reported failed
EveryFileSettled ==
    \A f \in Range(files_to_process(listing)) :
       \/ /\ worker[f] = "done"
          /\ \E k \in 1..MaxBuilds :
                RowsOfSongId(splitext_root(f)) = Repeat(Postings(f), k)
       \/ /\ worker[f] = "failed"
          /\ f \in logged

\* C19: in the threaded builder a worker that has raised does not hold
\* db_lock; a build that has returned has every discovered file committed
\* in full or reported as failed; and under fair scheduling a running build
\* comes to its end (or the process is killed).
C19_Termination ==
    /\ [](\A f \in FileNames : worker[f] = "failed" => db_lock # f)
    /\ [](build_pc = "finished" => EveryFileSettled)
    /\ (build_pc = "running") ~> (build_pc \in {"finished", "crashed"})

\* a build has returned in which one worker raised inside the with block,
\* and was reported, and the other worker took the lock after it and
\* committed its rows
C19_Witness ==
    /\ variant = "threading" /\ build_pc = "finished"
    /\ \E f \in FileNames, g \in FileNames :
          /\ worker[f] = "failed" /\ folder[f] # Corrupt /\ f \in logged
          /\ worker[g] = "done" /\ Postings(g) # <<>>
          /\ RowsOfSongId(splitext_root(g)) = Postings(g)

====
